---- MODULE Spec2Model ----
(***************************************************************************)
(* Model of the CPU monitor server (src/backend/cpu_server.py): the        *)
(* registry of connected websockets, the streaming sessions, the           *)
(* broadcast coroutines and the workload start/status handlers, together   *)
(* with the background workload thread that hands events to the event      *)
(* loop.                                                                   *)
(*                                                                         *)
(* One action is one atomic segment of a coroutine on the event loop (the  *)
(* code that runs between two suspension points), one step of the          *)
(* background thread, or one move of the environment (the peer closing a   *)
(* connection, a connection's writes stalling).                            *)
(***************************************************************************)
EXTENDS Integers, Sequences, FiniteSets, TLC

\* ---------------------------------------------------------------- bounds
MaxWs == 2          \* websocket connections that may ever be accepted
NumNotes == 2       \* steps (note events) of the workload
MaxStarts == 2      \* start-workload requests modelled
MaxStalled == 1     \* connections whose writes may stall
MaxCalls == 12      \* calls of CPUMonitor.get_cpu_percent modelled
CpuCount == 2       \* multiprocessing.cpu_count() of the machine
MaxOps == 5         \* registry operations applied in a row

\* ------------------------------------------------------ program constants
BufferSize == 10    \* CPUMonitor.buffer_size
NumThreads30 == 2   \* calibrated_workload_30: num_threads
NumThreads50 == 4   \* calibrated_workload_50: num_threads
NumThreads70 == 6   \* calibrated_workload_70: num_threads

WS == 1..MaxWs
Notes == 1..NumNotes

VARIABLES
    connected_websockets,  \* cpu_server.connected_websockets: set of handles
    sess,                  \* sess[w]: position of cpu_websocket_handler for w
    ws_closed,             \* ws_closed[w]: the value of ws.closed
    stalled,               \* connections whose sends never complete
    cleanups,              \* cleanups[w]: times w's handler ran its unregister
    inbox,                 \* inbox[w]: events written to w, in channel order
    workload_active,       \* cpu_server.workload_active
    workload_thread,       \* cpu_server.workload_thread and the thread's state
    note_callback,         \* test_workloads.note_callback
    module_loaded,         \* test_workloads is in sys.modules
    next_note,             \* notes the workload thread has announced
    loop_ready,            \* broadcasts handed to the loop, not yet started
    bc,                    \* bc[e]: the broadcast_event coroutine of event e
    response,              \* last workload-control HTTP response
    starts,                \* start-workload requests handled
    spawned                \* background threads started

\* The sampler (cpu_server.CPUMonitor).
VARIABLES
    cpu_history,           \* CPUMonitor.cpu_history: the smoothing window
    current_cpu,           \* CPUMonitor.current_cpu, a fraction <<num, den>>
    sample_result,         \* how the last call of get_cpu_percent ended
    readings,              \* every raw reading the OS returned, in order
    calls                  \* calls of get_cpu_percent made

\* The registry operations applied on their own.
VARIABLES
    reg_log                \* the add/discard calls made, with their effect

\* The calibrated load phases (test_workloads.run_all_workloads).
VARIABLES
    wl_pc,                 \* position of the main thread in run_all_workloads
    phase_i,               \* calibrated_workload_* calls begun so far
    units,                 \* every worker thread started: its phase and state
    threads,               \* the list threads of the phase that is running
    joined,                \* threads of that list joined so far
    expired,               \* phases whose end_time has passed
    phase_log,             \* the tiers of the phases begun, in order
    phase_exits            \* how each phase function was left

\* The history of each streaming session.
VARIABLES
    exit_cause,            \* exit_cause[w]: what made w's loop end (or will)
    read_errors,           \* read_errors[w]: sampling errors of w in a row
    ticks_waiting          \* ticks w completed with a broadcast held before it

serverVars == <<connected_websockets, sess, ws_closed, stalled, cleanups,
                inbox, workload_active, workload_thread, note_callback,
                module_loaded, next_note, loop_ready, bc, response, starts,
                spawned>>

samplerVars == <<cpu_history, current_cpu, sample_result, readings, calls>>

phaseVars == <<wl_pc, phase_i, units, threads, joined, expired, phase_log,
               phase_exits>>

histVars == <<exit_cause, read_errors, ticks_waiting>>

vars == <<serverVars, samplerVars, reg_log, phaseVars, histVars>>

sessVars == <<sess, ws_closed, cleanups>>
workVars == <<workload_active, workload_thread, note_callback, module_loaded,
              response, starts, spawned>>

\* A broadcast_event coroutine: st is "none" (not started), "run" (waiting
\* in a send), "done" (returned) or "raised" (an exception left it); snap is
\* the list clients, idx the position in it, sends the handles it has sent to
\* and failed the handles whose send raised.
NoBroadcast == [st |-> "none", snap |-> <<>>, idx |-> 0, sends |-> <<>>,
                failed |-> {}]

Init ==
    /\ connected_websockets = {}
    /\ sess = [w \in WS |-> "idle"]
    /\ ws_closed = [w \in WS |-> FALSE]
    /\ stalled = {}
    /\ cleanups = [w \in WS |-> 0]
    /\ inbox = [w \in WS |-> <<>>]
    /\ workload_active = FALSE
    /\ workload_thread = "none"
    /\ note_callback = "none"
    /\ module_loaded = FALSE
    /\ next_note = 0
    /\ loop_ready = <<>>
    /\ bc = [e \in Notes |-> NoBroadcast]
    /\ response = "none"
    /\ starts = 0
    /\ spawned = 0
    /\ cpu_history = <<>>
    /\ current_cpu = <<0, 1>>
    /\ sample_result = [kind |-> "none", ret |-> 0, raised |-> FALSE]
    /\ readings = <<>>
    /\ calls = 0
    /\ reg_log = <<>>
    /\ wl_pc = "baseline"
    /\ phase_i = 0
    /\ units = <<>>
    /\ threads = <<>>
    /\ joined = 0
    /\ expired = {}
    /\ phase_log = <<>>
    /\ phase_exits = <<>>
    /\ exit_cause = [w \in WS |-> "none"]
    /\ read_errors = [w \in WS |-> 0]
    /\ ticks_waiting = [w \in WS |-> 0]

\* ------------------------------------------------------------- registry
\* connected_websockets.add(ws)
RegisterNothing(reg, w) == reg

Register(reg, w) == reg \cup {w}

\* connected_websockets.discard(ws)
Discard(reg, w) == reg \ {w}

\* ------------------------------------------------------- streaming session
\* The finally block of cpu_websocket_handler, reached on every exit of the
\* try statement: the handle is discarded from the registry reg and the
\* handler returns (or the exception leaves it).
SessionFinallyNoDiscard(w, reg) ==
    /\ connected_websockets' = reg
    /\ cleanups' = [cleanups EXCEPT ![w] = @ + 1]
    /\ sess' = [sess EXCEPT ![w] = "closed"]

SessionFinally(w, reg) ==
    /\ connected_websockets' = Discard(reg, w)
    /\ cleanups' = [cleanups EXCEPT ![w] = @ + 1]
    /\ sess' = [sess EXCEPT ![w] = "closed"]

\* One pass from the loop head to the next suspension point: the while test
\* sees the connection closed and the handler leaves through finally; or
\* sampling raises and the handler waits in the except clause; or the payload
\* is written and the handler waits for the send to complete.
LoopIteration(w, reg) ==
    \/ /\ ws_closed[w]
       /\ SessionFinally(w, reg)
    \/ /\ ~ws_closed[w]
       /\ connected_websockets' = reg
       /\ sess' = [sess EXCEPT ![w] = "err_sleep"]
       /\ UNCHANGED cleanups
    \/ /\ ~ws_closed[w]
       /\ connected_websockets' = reg
       /\ sess' = [sess EXCEPT ![w] = "sending"]
       /\ UNCHANGED cleanups

\* A request arrives on /ws and ws.prepare raises: the handler ends before
\* it registered anything.
PrepareFail(w) ==
    /\ sess[w] = "idle"
    /\ sess' = [sess EXCEPT ![w] = "refused"]
    /\ UNCHANGED <<connected_websockets, ws_closed, stalled, cleanups,
                   inbox, loop_ready, bc, next_note>>
    /\ UNCHANGED workVars

\* A request arrives on /ws and ws.prepare returns: the handle is registered
\* and the loop is entered.
Connect(w) ==
    /\ sess[w] = "idle"
    /\ LoopIteration(w, Register(connected_websockets, w))
    /\ UNCHANGED <<ws_closed, stalled, inbox, loop_ready, bc, next_note>>
    /\ UNCHANGED workVars

\* ws.send_json(data) completes: the handler goes to asyncio.sleep(0.15).
SendDone(w) ==
    /\ sess[w] = "sending"
    /\ w \notin stalled
    /\ sess' = [sess EXCEPT ![w] = "sleeping"]
    /\ UNCHANGED <<connected_websockets, ws_closed, stalled, cleanups,
                   inbox, loop_ready, bc, next_note>>
    /\ UNCHANGED workVars

\* ws.send_json(data) raises: the except clause waits in asyncio.sleep(0.1).
SendRaise(w) ==
    /\ sess[w] = "sending"
    /\ w \notin stalled
    /\ sess' = [sess EXCEPT ![w] = "err_sleep"]
    /\ UNCHANGED <<connected_websockets, ws_closed, stalled, cleanups,
                   inbox, loop_ready, bc, next_note>>
    /\ UNCHANGED workVars

\* asyncio.sleep(0.15) returns: back to the loop head.
SleepDone(w) ==
    /\ sess[w] = "sleeping"
    /\ LoopIteration(w, connected_websockets)
    /\ UNCHANGED <<ws_closed, stalled, inbox, loop_ready, bc, next_note>>
    /\ UNCHANGED workVars

\* asyncio.sleep(0.1) in the except clause returns: break, then finally.
ErrSleepDone(w) ==
    /\ sess[w] = "err_sleep"
    /\ SessionFinally(w, connected_websockets)
    /\ UNCHANGED <<ws_closed, stalled, inbox, loop_ready, bc, next_note>>
    /\ UNCHANGED workVars

\* The handler task is cancelled while it waits after registering: the
\* CancelledError passes both except clauses and finally runs.
Cancel(w) ==
    /\ sess[w] \in {"sending", "sleeping", "err_sleep"}
    /\ SessionFinally(w, connected_websockets)
    /\ UNCHANGED <<ws_closed, stalled, inbox, loop_ready, bc, next_note>>
    /\ UNCHANGED workVars

\* ------------------------------------------------------------ environment
\* The connection of an accepted websocket becomes closed (ws.closed).
CloseConn(w) ==
    /\ sess[w] \in {"sending", "sleeping", "err_sleep"}
    /\ ~ws_closed[w]
    /\ ws_closed' = [ws_closed EXCEPT ![w] = TRUE]
    /\ UNCHANGED <<connected_websockets, sess, stalled, cleanups,
                   inbox, loop_ready, bc, next_note>>
    /\ UNCHANGED workVars

\* The peer of w stops reading: from now on no send to w completes.
Stall(w) ==
    /\ sess[w] \in {"sending", "sleeping", "err_sleep"}
    /\ w \notin stalled
    /\ Cardinality(stalled) < MaxStalled
    /\ stalled' = stalled \cup {w}
    /\ UNCHANGED <<connected_websockets, sess, ws_closed, cleanups,
                   inbox, loop_ready, bc, next_note>>
    /\ UNCHANGED workVars

\* --------------------------------------------------------------- broadcast
\* clients = list(connected_websockets). A set enumerates its members in
\* slot order, the same order at every copy; handles are numbered in it.
RECURSIVE Snapshot(_)
Snapshot(reg) ==
    IF reg = {} THEN <<>>
    ELSE LET w == CHOOSE x \in reg : \A y \in reg : x <= y
         IN <<w>> \o Snapshot(reg \ {w})

\* The for loop of broadcast_event from position i on: handles whose ws.closed
\* is true are passed over without a send.
NextOpenNoSkip(snap, i) == i

RECURSIVE NextOpen(_, _)
NextOpen(snap, i) ==
    IF i > Len(snap) THEN i
    ELSE IF ws_closed[snap[i]] THEN NextOpen(snap, i + 1)
    ELSE i

\* broadcast_event of event e runs on from position i of its snapshot until
\* it has written the event to the next open handle and waits for that send,
\* or until the snapshot is exhausted and it returns.
BroadcastAdvance(e, b, i) ==
    LET j == NextOpen(b.snap, i) IN
    IF j > Len(b.snap)
    THEN /\ bc' = [bc EXCEPT ![e] = [b EXCEPT !.st = "done", !.idx = j]]
         /\ UNCHANGED inbox
    ELSE /\ bc' = [bc EXCEPT ![e] = [b EXCEPT !.st = "run", !.idx = j,
                                              !.sends = Append(@, b.snap[j])]]
         /\ inbox' = [inbox EXCEPT ![b.snap[j]] = Append(@, e)]

\* The except clause of broadcast_event for a send to w that raised: the
\* handle is discarded, the failure is printed and the loop goes on.
BroadcastExceptPropagates(b, w, reg) ==
    [reg |-> reg,
     b |-> [b EXCEPT !.failed = @ \cup {w}],
     continue |-> FALSE]

BroadcastExcept(b, w, reg) ==
    [reg |-> Discard(reg, w),
     b |-> [b EXCEPT !.failed = @ \cup {w}],
     continue |-> TRUE]

\* The loop runs the first step of the oldest broadcast handed to it: the
\* registry is copied into a list; an empty list returns at once.
BroadcastBegin ==
    /\ loop_ready # <<>>
    /\ LET e == Head(loop_ready) IN
       /\ loop_ready' = Tail(loop_ready)
       /\ IF Snapshot(connected_websockets) = <<>>
          THEN /\ bc' = [bc EXCEPT ![e] = [NoBroadcast EXCEPT !.st = "done"]]
               /\ UNCHANGED inbox
          ELSE BroadcastAdvance(e, [NoBroadcast EXCEPT
                                       !.snap = Snapshot(connected_websockets)], 1)
    /\ UNCHANGED <<connected_websockets, stalled, next_note>>
    /\ UNCHANGED sessVars
    /\ UNCHANGED workVars

\* The send the broadcast of e waits for completes.
BroadcastSendDone(e) ==
    /\ bc[e].st = "run"
    /\ bc[e].snap[bc[e].idx] \notin stalled
    /\ BroadcastAdvance(e, bc[e], bc[e].idx + 1)
    /\ UNCHANGED <<connected_websockets, stalled, next_note, loop_ready>>
    /\ UNCHANGED sessVars
    /\ UNCHANGED workVars

\* The send the broadcast of e waits for raises.
BroadcastSendRaise(e) ==
    /\ bc[e].st = "run"
    /\ bc[e].snap[bc[e].idx] \notin stalled
    /\ LET w == bc[e].snap[bc[e].idx]
           h == BroadcastExcept(bc[e], w, connected_websockets) IN
       /\ connected_websockets' = h.reg
       /\ IF h.continue
          THEN BroadcastAdvance(e, h.b, bc[e].idx + 1)
          ELSE /\ bc' = [bc EXCEPT ![e] = [h.b EXCEPT !.st = "raised"]]
               /\ UNCHANGED inbox
    /\ UNCHANGED <<stalled, next_note, loop_ready>>
    /\ UNCHANGED sessVars
    /\ UNCHANGED workVars

\* ------------------------------------------------------- workload control
\* _notify, called on the workload thread for one note: the broadcast
\* coroutine is handed to the loop with run_coroutine_threadsafe; the thread
\* touches nothing else.
NotifyDirect(e, queue, reg) ==
    [queue |-> queue,
     reg |-> IF reg = {} THEN reg ELSE reg \ {CHOOSE w \in reg : TRUE}]

Notify(e, queue, reg) ==
    [queue |-> Append(queue, e), reg |-> reg]

\* One step of the workload on its background thread: the next note is
\* announced through the attached callback.
WorkloadStep ==
    /\ workload_thread = "running"
    /\ next_note < NumNotes
    /\ note_callback = "notify"
    /\ next_note' = next_note + 1
    /\ LET n == Notify(next_note + 1, loop_ready, connected_websockets) IN
       /\ loop_ready' = n.queue
       /\ connected_websockets' = n.reg
    /\ UNCHANGED <<stalled, inbox, bc>>
    /\ UNCHANGED sessVars
    /\ UNCHANGED workVars

\* The workload has played its last note: its thread ends.
WorkloadFinish ==
    /\ workload_thread = "running"
    /\ next_note = NumNotes
    /\ workload_thread' = "finished"
    /\ UNCHANGED <<connected_websockets, stalled, inbox, bc, loop_ready,
                   next_note, workload_active, note_callback, module_loaded,
                   response, starts, spawned>>
    /\ UNCHANGED sessVars

\* The except clause of start_workload_handler, entered with the globals as
\* the try block left them: the flag is reset and the error is returned.
StartExceptNoReset(r) ==
    [r EXCEPT !.response = "error"]

StartExcept(r) ==
    [r EXCEPT !.active = FALSE, !.response = "error"]

\* The globals the start handler reads and writes, as they are on entry.
StartEntry ==
    [active |-> workload_active, thread |-> workload_thread,
     callback |-> note_callback, spawned |-> spawned, response |-> response]

\* start_workload_handler when the active check passes: the notifier is
\* attached, the flag is set and the thread is created and started; if
\* creating or starting the thread raises, the except clause runs.
StartFreshNoFlag(threadFails) ==
    IF threadFails
    THEN StartExcept([StartEntry EXCEPT !.callback = "notify"])
    ELSE [StartEntry EXCEPT !.callback = "notify",
                            !.thread = "running", !.spawned = @ + 1,
                            !.response = "started"]

StartFresh(threadFails) ==
    IF threadFails
    THEN StartExcept([StartEntry EXCEPT !.callback = "notify", !.active = TRUE])
    ELSE [StartEntry EXCEPT !.callback = "notify", !.active = TRUE,
                            !.thread = "running", !.spawned = @ + 1,
                            !.response = "started"]

\* start_workload_handler when workload_active is already true: the client
\* error is returned before anything is written.
StartConflictIgnored ==
    StartFresh(FALSE)

StartConflict ==
    [StartEntry EXCEPT !.response = "conflict"]

\* POST /workload/start. The handler has no suspension point: one step.
StartWorkload ==
    /\ starts < MaxStarts
    /\ starts' = starts + 1
    /\ \E importFails \in IF module_loaded THEN {FALSE} ELSE BOOLEAN :
       \E threadFails \in BOOLEAN :
         LET r == IF importFails THEN StartExcept(StartEntry)
                  ELSE IF workload_active THEN StartConflict
                  ELSE StartFresh(threadFails) IN
         /\ module_loaded' = ~importFails
         /\ workload_active' = r.active
         /\ workload_thread' = r.thread
         /\ note_callback' = r.callback
         /\ spawned' = r.spawned
         /\ response' = r.response
    /\ UNCHANGED <<connected_websockets, stalled, inbox, bc, loop_ready,
                   next_note>>
    /\ UNCHANGED sessVars

\* GET /workload/status.
WorkloadStatus ==
    /\ response' = IF workload_active THEN "active" ELSE "inactive"
    /\ UNCHANGED <<connected_websockets, stalled, inbox, bc, loop_ready,
                   next_note, workload_active, workload_thread, note_callback,
                   module_loaded, starts, spawned>>
    /\ UNCHANGED sessVars

\* What a step of the server leaves alone.
auxVars == <<samplerVars, reg_log, phaseVars, histVars>>

Next ==
    \/ (\E w \in WS : Connect(w)) /\ UNCHANGED auxVars
    \/ (\E w \in WS : PrepareFail(w)) /\ UNCHANGED auxVars
    \/ (\E w \in WS : SendDone(w)) /\ UNCHANGED auxVars
    \/ (\E w \in WS : SendRaise(w)) /\ UNCHANGED auxVars
    \/ (\E w \in WS : SleepDone(w)) /\ UNCHANGED auxVars
    \/ (\E w \in WS : ErrSleepDone(w)) /\ UNCHANGED auxVars
    \/ (\E w \in WS : Cancel(w)) /\ UNCHANGED auxVars
    \/ (\E w \in WS : CloseConn(w)) /\ UNCHANGED auxVars
    \/ (\E w \in WS : Stall(w)) /\ UNCHANGED auxVars
    \/ BroadcastBegin /\ UNCHANGED auxVars
    \/ (\E e \in Notes : BroadcastSendDone(e)) /\ UNCHANGED auxVars
    \/ (\E e \in Notes : BroadcastSendRaise(e)) /\ UNCHANGED auxVars
    \/ WorkloadStep /\ UNCHANGED auxVars
    \/ WorkloadFinish /\ UNCHANGED auxVars
    \/ StartWorkload /\ UNCHANGED auxVars
    \/ WorkloadStatus /\ UNCHANGED auxVars

Spec == Init /\ [][Next]_vars

\* ------------------------------------------------- the server, with history
\* The server's steps again, each recording what it did to a session: why
\* the session's loop ends, how many sampling errors it met in a row, and
\* how many telemetry sends it completed while a broadcast that has its
\* handle further on in the snapshot waited in a send to a stalled
\* connection (a send that never completes).
HeldFor(b, stl, w) ==
    \E e \in Notes :
        /\ b[e].st = "run"
        /\ b[e].snap[b[e].idx] \in stl
        /\ \E i \in (b[e].idx + 1)..Len(b[e].snap) : b[e].snap[i] = w

\* The step completed a telemetry send of session t (0: of no session).
TrackTicks(t) ==
    ticks_waiting' =
        [w \in WS |->
            IF ~HeldFor(bc', stalled', w) THEN 0
            ELSE IF w = t /\ ticks_waiting[w] < 2 THEN ticks_waiting[w] + 1
            ELSE ticks_waiting[w]]

\* The step ran w's loop from its head: a sampling error sends it to the
\* except clause, a closed connection ends it, a payload written clears
\* the run of errors.
TrackLoop(w) ==
    /\ read_errors' = [read_errors EXCEPT ![w] =
                           IF sess'[w] = "err_sleep" THEN @ + 1
                           ELSE IF sess'[w] = "sending" THEN 0 ELSE @]
    /\ exit_cause' = [exit_cause EXCEPT ![w] =
                          IF sess'[w] = "err_sleep" THEN "read_error"
                          ELSE IF sess'[w] = "closed" THEN "closed_seen"
                          ELSE @]

TrackCause(w, c) ==
    /\ exit_cause' = [exit_cause EXCEPT ![w] = c]
    /\ UNCHANGED read_errors

KeepCause == UNCHANGED <<exit_cause, read_errors>>

histFrame == <<samplerVars, reg_log, phaseVars>>

HistNext ==
    \/ (\E w \in WS : Connect(w) /\ TrackLoop(w) /\ TrackTicks(0))
           /\ UNCHANGED histFrame
    \/ (\E w \in WS : PrepareFail(w) /\ KeepCause /\ TrackTicks(0))
           /\ UNCHANGED histFrame
    \/ (\E w \in WS : SendDone(w) /\ KeepCause /\ TrackTicks(w))
           /\ UNCHANGED histFrame
    \/ (\E w \in WS : SendRaise(w) /\ TrackCause(w, "push_error")
                                   /\ TrackTicks(0))
           /\ UNCHANGED histFrame
    \/ (\E w \in WS : SleepDone(w) /\ TrackLoop(w) /\ TrackTicks(0))
           /\ UNCHANGED histFrame
    \/ (\E w \in WS : ErrSleepDone(w) /\ KeepCause /\ TrackTicks(0))
           /\ UNCHANGED histFrame
    \/ (\E w \in WS : Cancel(w) /\ TrackCause(w, "cancelled")
                                /\ TrackTicks(0))
           /\ UNCHANGED histFrame
    \/ (\E w \in WS : CloseConn(w) /\ KeepCause /\ TrackTicks(0))
           /\ UNCHANGED histFrame
    \/ (\E w \in WS : Stall(w) /\ KeepCause /\ TrackTicks(0))
           /\ UNCHANGED histFrame
    \/ (BroadcastBegin /\ KeepCause /\ TrackTicks(0))
           /\ UNCHANGED histFrame
    \/ (\E e \in Notes : BroadcastSendDone(e) /\ KeepCause /\ TrackTicks(0))
           /\ UNCHANGED histFrame
    \/ (\E e \in Notes : BroadcastSendRaise(e) /\ KeepCause /\ TrackTicks(0))
           /\ UNCHANGED histFrame
    \/ (WorkloadStep /\ KeepCause /\ TrackTicks(0))
           /\ UNCHANGED histFrame
    \/ (WorkloadFinish /\ KeepCause /\ TrackTicks(0))
           /\ UNCHANGED histFrame
    \/ (StartWorkload /\ KeepCause /\ TrackTicks(0))
           /\ UNCHANGED histFrame
    \/ (WorkloadStatus /\ KeepCause /\ TrackTicks(0))
           /\ UNCHANGED histFrame

HistSpec == Init /\ [][HistNext]_vars

\* ------------------------------------------------------ registry on its own
\* The registry's two operations applied to any handle in any order, each
\* call logged with the registry before and after it.
\* connected_websockets.discard(ws) inside try / except Exception: pass.
UnregisterByRemove(reg, w) ==
    [reg |-> reg \ {w}, raised |-> w \notin reg]

Unregister(reg, w) ==
    [reg |-> Discard(reg, w), raised |-> FALSE]

RegAdd(w) ==
    /\ Len(reg_log) < MaxOps
    /\ connected_websockets' = Register(connected_websockets, w)
    /\ reg_log' = Append(reg_log,
                         [op |-> "add", h |-> w, raised |-> FALSE,
                          before |-> connected_websockets,
                          after |-> Register(connected_websockets, w)])

RegDiscard(w) ==
    /\ Len(reg_log) < MaxOps
    /\ LET u == Unregister(connected_websockets, w) IN
       /\ connected_websockets' = u.reg
       /\ reg_log' = Append(reg_log,
                            [op |-> "discard", h |-> w, raised |-> u.raised,
                             before |-> connected_websockets,
                             after |-> u.reg])

regFrame == <<sess, ws_closed, stalled, cleanups, inbox, workload_active,
              workload_thread, note_callback, module_loaded, next_note,
              loop_ready, bc, response, starts, spawned, samplerVars,
              phaseVars, histVars>>

RegNext ==
    \/ (\E w \in WS : RegAdd(w)) /\ UNCHANGED regFrame
    \/ (\E w \in WS : RegDiscard(w)) /\ UNCHANGED regFrame

RegSpec == Init /\ [][RegNext]_vars

\* ------------------------------------------------------------- load phases
\* run_all_workloads: the calibrated_workload_* calls in program order, by
\* target tier.
PhaseOrder == <<30, 50, 70, 90, 30, 50, 70, 90>>

\* num_threads of the phase function of tier t.
NumThreads(t) ==
    CASE t = 30 -> NumThreads30
      [] t = 50 -> NumThreads50
      [] t = 70 -> NumThreads70
      [] t = 90 -> CpuCount

\* The units of phase i that have not terminated.
Alive(us, i) == {k \in 1..Len(us) : us[k].phase = i /\ us[k].st # "dead"}

\* time.sleep(2) at the head of run_all_workloads returns.
BaselineDone ==
    /\ wl_pc = "baseline"
    /\ wl_pc' = "call"
    /\ UNCHANGED <<phase_i, units, threads, joined, expired, phase_log,
                   phase_exits>>

\* The next calibrated_workload_* is called: end_time is computed and the
\* list threads is empty.
PhaseBegin ==
    /\ wl_pc = "call"
    /\ phase_i < Len(PhaseOrder)
    /\ phase_i' = phase_i + 1
    /\ phase_log' = Append(phase_log, PhaseOrder[phase_i + 1])
    /\ threads' = <<>>
    /\ joined' = 0
    /\ wl_pc' = IF NumThreads(PhaseOrder[phase_i + 1]) = 0
                THEN "pause" ELSE "spawn"
    /\ UNCHANGED <<units, expired, phase_exits>>

\* The phase function is left, by return or by an exception.
PhaseExit(how) ==
    Append(phase_exits,
           [phase |-> phase_i, tier |-> PhaseOrder[phase_i], how |-> how,
            started |-> Len(threads), joined |-> joined,
            alive |-> Cardinality(Alive(units, phase_i))])

\* One pass of the spawn loop: threading.Thread(...), t.start() and
\* threads.append(t); after the last pass the join loop begins.
SpawnUnit ==
    /\ wl_pc = "spawn"
    /\ units' = Append(units, [phase |-> phase_i, st |-> "checking"])
    /\ threads' = Append(threads, Len(units) + 1)
    /\ wl_pc' = IF Len(threads) + 1 = NumThreads(PhaseOrder[phase_i])
                THEN "join" ELSE "spawn"
    /\ UNCHANGED <<phase_i, joined, expired, phase_log, phase_exits>>

\* t.start() raises (the thread cannot be started): nothing catches the
\* error in the phase function or in run_all_workloads.
SpawnRaise ==
    /\ wl_pc = "spawn"
    /\ wl_pc' = "raised"
    /\ phase_exits' = PhaseExit("raised")
    /\ UNCHANGED <<phase_i, units, threads, joined, expired, phase_log>>

\* t.join() returns once the thread has terminated.
JoinReturnsAtOnce(u) == TRUE

JoinReturns(u) == u.st = "dead"

\* One pass of the join loop; after the last pass, time.sleep(2).
JoinUnit ==
    /\ wl_pc = "join"
    /\ JoinReturns(units[threads[joined + 1]])
    /\ joined' = joined + 1
    /\ wl_pc' = IF joined + 1 = Len(threads) THEN "pause" ELSE "join"
    /\ UNCHANGED <<phase_i, units, threads, expired, phase_log, phase_exits>>

\* time.sleep(2) returns and the phase function returns to its caller.
PhaseReturn ==
    /\ wl_pc = "pause"
    /\ phase_exits' = PhaseExit("returned")
    /\ wl_pc' = IF phase_i = Len(PhaseOrder) THEN "complete" ELSE "call"
    /\ UNCHANGED <<phase_i, units, threads, joined, expired, phase_log>>

\* worker_thread: the while test time.time() < end_time.
UnitCheck(k) ==
    /\ units[k].st = "checking"
    /\ units' = [units EXCEPT ![k].st =
                     IF units[k].phase \in expired THEN "dead" ELSE "working"]
    /\ UNCHANGED <<wl_pc, phase_i, threads, joined, expired, phase_log,
                   phase_exits>>

\* worker_thread: work_func() returns.
UnitWork(k) ==
    /\ units[k].st = "working"
    /\ units' = [units EXCEPT ![k].st = "checking"]
    /\ UNCHANGED <<wl_pc, phase_i, threads, joined, expired, phase_log,
                   phase_exits>>

\* The clock passes the end_time of the oldest phase that has begun and
\* not yet expired.
DeadlinePass ==
    /\ \E i \in 1..phase_i :
          /\ i \notin expired
          /\ \A j \in 1..(i - 1) : j \in expired
          /\ expired' = expired \cup {i}
    /\ UNCHANGED <<wl_pc, phase_i, units, threads, joined, phase_log,
                   phase_exits>>

phaseFrame == <<serverVars, samplerVars, reg_log, histVars>>

PhaseNext ==
    \/ BaselineDone /\ UNCHANGED phaseFrame
    \/ PhaseBegin /\ UNCHANGED phaseFrame
    \/ SpawnUnit /\ UNCHANGED phaseFrame
    \/ SpawnRaise /\ UNCHANGED phaseFrame
    \/ JoinUnit /\ UNCHANGED phaseFrame
    \/ PhaseReturn /\ UNCHANGED phaseFrame
    \/ (\E k \in 1..Len(units) : UnitCheck(k)) /\ UNCHANGED phaseFrame
    \/ (\E k \in 1..Len(units) : UnitWork(k)) /\ UNCHANGED phaseFrame
    \/ DeadlinePass /\ UNCHANGED phaseFrame

PhaseSpec == Init /\ [][PhaseNext]_vars

\* ----------------------------------------------------------------- sampler
\* The raw readings psutil.cpu_percent may return (percent), and the two
\* ways the call may end.
Readings == {0, 100}
RawOutcomes == [ok : {TRUE}, v : Readings] \cup [ok : {FALSE}, v : {0}]

\* self.cpu_history.pop(0)
EvictNewest(h) == SubSeq(h, 1, Len(h) - 1)

Evict(h) == Tail(h)

\* self.cpu_history.append(cpu_percent), then the length test and the pop.
Push(h, v) ==
    LET a == Append(h, v) IN
    IF Len(a) > BufferSize THEN Evict(a) ELSE a

RECURSIVE SumTo(_, _)
SumTo(f, n) == IF n = 0 THEN 0 ELSE f[n] + SumTo(f, n - 1)

\* weights[i] = 1 + i / buffer_size for i in range(len(h)); the weighted
\* sum over the sum of the weights, as a fraction <<num, den>>: both sums
\* are taken in units of 1 / buffer_size, and the position i of the code is
\* k - 1 here.
WeightedAverage(h) ==
    LET wt == [k \in 1..Len(h) |-> BufferSize + (k - 1)]
        ws == [k \in 1..Len(h) |-> h[k] * wt[k]]
    IN <<SumTo(ws, Len(h)), SumTo(wt, Len(h))>>

\* max(0, min(100, q)) on a fraction with a positive denominator.
Clamp(q) ==
    IF q[1] > 100 * q[2] THEN <<100, 1>>
    ELSE IF q[1] < 0 THEN <<0, 1>>
    ELSE q

\* round(q, 1) in tenths: the nearest tenth, a tie going to the even one.
Round1(q) ==
    LET n == 10 * q[1]
        t == n \div q[2]
        r == n % q[2]
    IN IF 2 * r > q[2] THEN t + 1
       ELSE IF 2 * r < q[2] THEN t
       ELSE IF t % 2 = 0 THEN t ELSE t + 1

\* The except clause of get_cpu_percent: the error is printed, the window
\* and the stored value stay and the stored value is returned rounded.
SampleFailedAsZero(m) ==
    [cpu_history |-> Push(m.cpu_history, 0),
     current_cpu |-> <<0, 1>>,
     ret |-> 0, raised |-> FALSE]

SampleFailed(m) ==
    [cpu_history |-> m.cpu_history,
     current_cpu |-> m.current_cpu,
     ret |-> Round1(m.current_cpu), raised |-> FALSE]

\* CPUMonitor.get_cpu_percent on the monitor m with the raw outcome raw.
get_cpu_percent(m, raw) ==
    IF raw.ok
    THEN LET h == Push(m.cpu_history, raw.v)
             c == Clamp(WeightedAverage(h))
         IN [cpu_history |-> h, current_cpu |-> c,
             ret |-> Round1(c), raised |-> FALSE]
    ELSE SampleFailed(m)

\* One call of cpu_monitor.get_cpu_percent(), from a streaming session or
\* from the one-shot /cpu request.
Sample ==
    /\ calls < MaxCalls
    /\ \E raw \in RawOutcomes :
         LET out == get_cpu_percent([cpu_history |-> cpu_history,
                                     current_cpu |-> current_cpu], raw) IN
         /\ cpu_history' = out.cpu_history
         /\ current_cpu' = out.current_cpu
         /\ sample_result' = [kind |-> IF raw.ok THEN "read" ELSE "failed",
                              ret |-> out.ret, raised |-> out.raised]
         /\ readings' = IF raw.ok THEN Append(readings, raw.v) ELSE readings
    /\ calls' = calls + 1

SamplerNext ==
    \/ Sample /\ UNCHANGED <<serverVars, reg_log, phaseVars, histVars>>

SamplerSpec == Init /\ [][SamplerNext]_vars

\* ================================================================= claims
Range(seq) == {seq[i] : i \in 1..Len(seq)}

Streaming(w) == sess[w] \in {"sending", "sleeping", "err_sleep"}

\* A subscriber in good order: registered, pushing telemetry, its connection
\* open and not stalled.
Healthy(w) ==
    /\ sess[w] \in {"sending", "sleeping"}
    /\ w \in connected_websockets
    /\ ~ws_closed[w]
    /\ w \notin stalled

\* A step of the workload thread: it announces a note or it ends.
ThreadStepped ==
    \/ next_note' # next_note
    \/ workload_thread = "running" /\ workload_thread' = "finished"

\* The first step of the broadcast of e (the snapshot is taken in it).
Begins(e) == bc[e].st = "none" /\ bc'[e].st # "none"

\* The handles the broadcast of e has found stale so far: those it passed
\* over as closed and those whose send raised.
StaleSeen(e) ==
    {bc[e].snap[i] : i \in {j \in 1..Len(bc[e].snap) : j < bc[e].idx}}
        \ (Range(bc[e].sends) \ bc[e].failed)

\* C1. Broadcast isolation: no broadcast ever ends with an exception, and
\* once a broadcast has returned, every handle whose send raised is out of
\* the registry and every other open handle of its snapshot holds the event.
C1_BroadcastIsolation ==
    \A e \in Notes :
        /\ bc[e].st # "raised"
        /\ bc[e].st = "done" =>
            /\ bc[e].failed \cap connected_websockets = {}
            /\ \A w \in Range(bc[e].snap) \ bc[e].failed :
                   ~ws_closed[w] => e \in Range(inbox[w])

\* C1 witness: a returned broadcast whose first send raised and whose second
\* handle, still open, received the event.
C1_Witness ==
    \E e \in Notes :
        /\ bc[e].st = "done"
        /\ Len(bc[e].snap) = 2
        /\ bc[e].failed = {bc[e].snap[1]}
        /\ ~ws_closed[bc[e].snap[2]]
        /\ e \in Range(inbox[bc[e].snap[2]])

\* C2. Stall isolation, as the claim states it for event delivery: a
\* broadcast that waits in a send to a stalled connection keeps no other
\* live subscriber of its snapshot waiting for the event behind that send.
C2_StallIsolation ==
    \A e \in Notes :
        (bc[e].st = "run" /\ bc[e].snap[bc[e].idx] \in stalled) =>
            \A j \in 1..Len(bc[e].snap) :
                j > bc[e].idx =>
                    ~Healthy(bc[e].snap[j])

\* C3. Guaranteed session cleanup: a handler that registered and has ended
\* ran its unregister exactly once and its handle is not in the registry; a
\* handler still streaming has not run it, one that never registered never
\* does.
C3_SessionCleanup ==
    \A w \in WS :
        /\ sess[w] = "closed" => cleanups[w] = 1 /\ w \notin connected_websockets
        /\ sess[w] # "closed" => cleanups[w] = 0
        /\ sess[w] \in {"idle", "refused"} => w \notin connected_websockets

\* C3 witness: a session ended and cleaned up while another still streams
\* and is registered.
C3_Witness ==
    \E w, v \in WS :
        /\ sess[w] = "closed" /\ cleanups[w] = 1
        /\ Streaming(v) /\ v \in connected_websockets

\* C4. The registry changes only in steps of the event loop: a step of the
\* workload thread leaves it as it is, and every step that changes it is a
\* step of a session handler or of a broadcast coroutine.
C4_RegistryLoopOnly ==
    [][(connected_websockets' # connected_websockets) =>
          /\ ~ThreadStepped
          /\ (sess' # sess \/ bc' # bc)]_vars

\* C4 witness: the thread has announced its second note while the broadcast
\* of the first waits in a send and the registry holds a handle.
C4_Witness ==
    /\ next_note = 2
    /\ bc[1].st = "run"
    /\ connected_websockets # {}

\* C5. Snapshot broadcast: a broadcast sends at most once to each handle and
\* only to handles of its snapshot, an event reaches only handles of the
\* snapshot, and a broadcast that waits in a send can always take its next
\* step (it terminates).
C5_SnapshotBroadcast ==
    \A e \in Notes :
        /\ \A i, j \in 1..Len(bc[e].sends) :
               bc[e].sends[i] = bc[e].sends[j] => i = j
        /\ Range(bc[e].sends) \subseteq Range(bc[e].snap)
        /\ \A w \in WS : e \in Range(inbox[w]) => w \in Range(bc[e].sends)
        /\ bc[e].st = "run" =>
               ENABLED (BroadcastSendDone(e) \/ BroadcastSendRaise(e))

\* The parts of C5 that do not depend on sends completing. In every state: a
\* broadcast has sent at most once to each handle, only to handles of its
\* snapshot, and an event is on a channel at most once and only through its
\* broadcast.
SnapshotSafety ==
    \A e \in Notes :
        /\ \A i, j \in 1..Len(bc[e].sends) :
               bc[e].sends[i] = bc[e].sends[j] => i = j
        /\ Range(bc[e].sends) \subseteq Range(bc[e].snap)
        /\ \A w \in WS :
               /\ e \in Range(inbox[w]) => w \in Range(bc[e].sends)
               /\ \A i, j \in 1..Len(inbox[w]) :
                      inbox[w][i] = inbox[w][j] => i = j
        /\ bc[e].st = "run" => bc[e].idx \in 1..Len(bc[e].snap)

\* In every step: the snapshot of a broadcast that begins is the registry as
\* it was at that moment and never changes afterwards, a broadcast that
\* begins on an empty registry returns at once and changes nothing else, and
\* each step of a broadcast moves it forward in its snapshot.
SnapshotSteps ==
    [][\A e \in Notes :
          /\ Begins(e) =>
                 /\ Range(bc'[e].snap) = connected_websockets
                 /\ connected_websockets = {} =>
                        /\ bc'[e].st = "done"
                        /\ UNCHANGED <<connected_websockets, inbox, sess,
                                       cleanups>>
          /\ bc[e].st # "none" => bc'[e].snap = bc[e].snap
          /\ (bc[e].st = "run" /\ bc'[e] # bc[e]) => bc'[e].idx > bc[e].idx
          /\ bc[e].st \in {"done", "raised"} => bc'[e] = bc[e]]_vars

\* C6. Start conflict: a start request handled while the flag is true
\* answers with the conflict and leaves the flag, the thread, the notifier
\* and the number of threads started as they were.
C6_StartConflict ==
    [][(starts' # starts /\ workload_active) =>
          /\ response' = "conflict"
          /\ UNCHANGED <<workload_active, workload_thread, note_callback,
                         spawned>>]_vars

\* C6 witness: a start request was answered with the conflict while the one
\* thread ever started is running.
C6_Witness ==
    /\ response = "conflict"
    /\ spawned = 1
    /\ workload_thread = "running"

C8_StartFailureResets ==
    [][/\ (starts' # starts /\ response' = "error") => ~workload_active'
       /\ (starts' = starts) => workload_active' = workload_active
       /\ (starts' # starts /\ ~workload_active) => response' # "conflict"]_vars

\* C8 witness: a start request failed after the notifier was attached (the
\* thread could not be created or started) and the flag is false.
C8_Witness ==
    /\ response = "error"
    /\ note_callback = "notify"
    /\ ~workload_active
    /\ spawned = 0

\* C9. No stale handle survives a broadcast: when a broadcast begins, no
\* handle that an earlier broadcast found closed or failing is in the
\* registry.
C9_NoStaleSurvives ==
    [][\A e \in Notes :
          Begins(e) =>
              \A d \in Notes : StaleSeen(d) \cap connected_websockets = {}]_vars

\* C10. Per-workload event ordering: every subscriber receives the events of
\* the workload in step order.
C10_EventOrder ==
    \A w \in WS :
        \A i, j \in 1..Len(inbox[w]) : i < j => inbox[w][i] < inbox[w][j]

C18_ClosedStaysOut ==
    [][\A w \in WS :
          /\ sess'[w] = "closed" => w \notin connected_websockets'
          /\ (w \in connected_websockets' /\ w \notin connected_websockets)
                 => sess[w] = "idle"
          /\ inbox'[w] # inbox[w] => ~ws_closed[w]]_vars

\* C18 witness: a broadcast that took its snapshot while a session was
\* registered has returned after passing over that handle as closed, the
\* session has ended and the handle is out of the registry.
C18_Witness ==
    \E e \in Notes : \E w \in WS :
        /\ bc[e].st = "done"
        /\ w \in Range(bc[e].snap)
        /\ w \notin Range(bc[e].sends)
        /\ Range(bc[e].sends) # {}
        /\ sess[w] = "closed"
        /\ w \notin connected_websockets

\* C19. Mutual exclusion of workload starts: a thread is started only by a
\* step that finds the flag false and leaves it true, one thread per step,
\* and while the thread runs the flag is true (so every other start request
\* is answered with the conflict, by C6).
C19_StartMutex ==
    [][/\ spawned' # spawned =>
              /\ ~workload_active
              /\ workload_active'
              /\ spawned' = spawned + 1
              /\ workload_thread' = "running"
       /\ workload_thread' = "running" => workload_active']_vars

\* C19 witness: every modelled start request has been handled, one of them
\* started the thread, and the thread is still running with the flag true.
C19_Witness ==
    /\ starts = MaxStarts
    /\ spawned = 1
    /\ workload_active
    /\ workload_thread = "running"
    /\ response = "conflict"

\* The last n elements of a sequence (all of it when it is shorter).
LastN(seq, n) ==
    IF Len(seq) <= n THEN seq ELSE SubSeq(seq, Len(seq) - n + 1, Len(seq))

\* C14. The smoothing window holds at most BufferSize readings: exactly the
\* most recent min(n, BufferSize) raw readings the OS returned, in the
\* order they arrived.
C14_WindowIsRecent ==
    /\ Len(cpu_history) <= BufferSize
    /\ cpu_history = LastN(readings, BufferSize)

\* C14 witness: more than BufferSize readings have arrived, the oldest of
\* them differs from the oldest one kept, and the window is full.
C14_Witness ==
    /\ Len(readings) > BufferSize
    /\ Len(cpu_history) = BufferSize
    /\ readings[1] # cpu_history[1]
    /\ cpu_history[1] # cpu_history[BufferSize]

\* C15. Fail-soft sampling: a call whose raw reading fails raises nothing,
\* returns the stored smoothed value (rounded) and leaves the window and
\* the stored value as they were.
C15_FailSoft ==
    [][sample_result'.kind = "failed" =>
          /\ ~sample_result'.raised
          /\ sample_result'.ret = Round1(current_cpu)
          /\ cpu_history' = cpu_history
          /\ current_cpu' = current_cpu]_vars

\* C15 witness: a call has failed with readings in the window and a stored
\* value that is neither zero nor a whole number of tenths, and it returned
\* that value rounded.
C15_Witness ==
    /\ sample_result.kind = "failed"
    /\ cpu_history # <<>>
    /\ current_cpu[1] # 0
    /\ (10 * current_cpu[1]) % current_cpu[2] # 0
    /\ sample_result.ret = Round1(current_cpu)

\* C16. Registry idempotence: a discard of an absent handle changes nothing
\* and raises nothing, a second discard of a handle leaves the registry as
\* the first left it, an add of a registered handle changes nothing; and a
\* discard takes out its handle and no other.
C16_RegistryIdempotent ==
    \A i \in 1..Len(reg_log) :
        LET c == reg_log[i] IN
        /\ ~c.raised
        /\ (c.op = "discard" /\ c.h \notin c.before) => c.after = c.before
        /\ (c.op = "add" /\ c.h \in c.before) => c.after = c.before
        /\ c.op = "discard" => c.after = c.before \ {c.h}
        /\ (i > 1 /\ c.op = "discard" /\ reg_log[i - 1].op = "discard"
                  /\ reg_log[i - 1].h = c.h)
              => c.after = reg_log[i - 1].after

\* C16 witness: a handle was added twice and then discarded twice with
\* another handle registered throughout.
C16_Witness ==
    /\ Len(reg_log) = MaxOps
    /\ \E i \in 1..(MaxOps - 1) : \E w \in WS :
          /\ reg_log[i].op = "discard" /\ reg_log[i].h = w
          /\ w \in reg_log[i].before
          /\ reg_log[i].before # {w}
          /\ reg_log[i + 1].op = "discard" /\ reg_log[i + 1].h = w
    /\ \E i \in 1..MaxOps :
          reg_log[i].op = "add" /\ reg_log[i].h \in reg_log[i].before

\* C13. The 30% phase is left, on every outcome, only when none of the
\* units it started is still running, and when it returns it has started
\* and joined exactly two units.
C13_Phase30JoinsAll ==
    \A i \in 1..Len(phase_exits) :
        phase_exits[i].tier = 30 =>
            /\ phase_exits[i].alive = 0
            /\ phase_exits[i].how = "returned" =>
                   /\ phase_exits[i].started = NumThreads30
                   /\ phase_exits[i].joined = NumThreads30

\* C20. The phases begin in the order 30, 50, 70, 90, 30, 50, 70, 90, and
\* whenever a phase starts a unit every unit of every other phase has
\* terminated.
C20_PhasesInOrder ==
    [][/\ phase_log' = SubSeq(<<30, 50, 70, 90, 30, 50, 70, 90>>, 1,
                               Len(phase_log'))
       /\ Len(units') > Len(units) =>
              \A k \in 1..Len(units) :
                  units[k].phase # phase_i => units[k].st = "dead"]_vars

\* C20 witness: all eight phases have run and returned, each having started
\* its units.
C20_Witness ==
    /\ wl_pc = "complete"
    /\ Len(phase_log) = 8
    /\ Len(phase_exits) = 8
    /\ Len(units) = 2 * (NumThreads30 + NumThreads50 + NumThreads70 + CpuCount)

\* C11. Bounded delivery: a session that stays connected, registered and
\* able to receive does not complete two telemetry sends while a broadcast
\* that took it into its snapshot has still to reach it and is held at a
\* send that never completes.
C11_BoundedDelivery ==
    \A w \in WS : Healthy(w) => ticks_waiting[w] < 2

\* C12. A session's loop ends only because the connection was seen closed,
\* a push failed, the handler was cancelled, or sampling failed twice in a
\* row: a single sampling error does not end it.
C12_SessionExit ==
    \A w \in WS :
        sess[w] = "closed" =>
            /\ exit_cause[w] \in {"closed_seen", "push_error", "cancelled",
                                  "read_error"}
            /\ exit_cause[w] = "read_error" => read_errors[w] >= 2
====
